---- MODULE Spec2Model ----
(***************************************************************************)
(* A model of the serialization helpers of regex-automata (src/bytes.rs):  *)
(* labels, endianness markers, version numbers, fixed width and variable   *)
(* width integers, and the checked arithmetic helpers.                     *)
(*                                                                         *)
(* Unsigned machine integers (u8, u16, u32, u64, usize) are bit vectors:   *)
(* a sequence of 0/1 of the type's width, least significant bit first.     *)
(* Bytes stored in a buffer are the numbers 0..255, and a buffer or slice  *)
(* is a sequence of bytes.  Rust's index i is the sequence's index i + 1.  *)
(***************************************************************************)
EXTENDS Integers, Sequences, FiniteSets, TLC

VARIABLES
    native,      \* the target's byte order: "LE" or "BE" (cfg target_endian)
    usize_bits,  \* the width of usize on the target
    pc,          \* the position of the caller
    inp,         \* the inputs the caller was given
    buf,         \* the byte buffer written to and read from
    wret,        \* what the last writer returned
    rret,        \* what the last reader (or helper) returned
    wcur,        \* the writer's cursor into buf
    rcur         \* the reader's cursor into buf

vars == <<native, usize_bits, pc, inp, buf, wret, rret, wcur, rcur>>

----------------------------------------------------------------------------
(* Bit vectors *)

RECURSIVE Pow2(_)
Pow2(k) == IF k = 0 THEN 1 ELSE 2 * Pow2(k - 1)

\* The powers of two a 31-bit number has bits for.
Pow2Table == [k \in 0..30 |-> Pow2(k)]

\* The w-bit vector of the number n (n < 2^31), as `n as uW` gives it.
FromNat(n, w) ==
    [i \in 1..w |-> IF i > 31 THEN 0 ELSE (n \div Pow2Table[i - 1]) % 2]

RECURSIVE ToNat(_)
\* The number a (short) bit vector stands for.
ToNat(bv) ==
    IF Len(bv) = 0 THEN 0 ELSE bv[1] + 2 * ToNat(Tail(bv))

\* `x as uW` between unsigned types: truncate or zero-extend to w bits.
Cast(bv, w) == [i \in 1..w |-> IF i <= Len(bv) THEN bv[i] ELSE 0]

\* x | y and x & y on vectors of one width.
BitOr(x, y) == [i \in 1..Len(x) |-> IF x[i] = 1 \/ y[i] = 1 THEN 1 ELSE 0]

BitAnd(x, y) == [i \in 1..Len(x) |-> IF x[i] = 1 /\ y[i] = 1 THEN 1 ELSE 0]

\* x >> k: the low k bits fall off, zeros come in at the top.
Shr(x, k) == [i \in 1..Len(x) |-> IF i + k <= Len(x) THEN x[i + k] ELSE 0]

\* x << k in the type's width: the top k bits fall off.
Shl(x, k) == [i \in 1..Len(x) |-> IF i > k THEN x[i - k] ELSE 0]

\* x >= 2^k for a bit vector x.
GePow2(x, k) == \E i \in (k + 1)..Len(x) : x[i] = 1

\* The mathematical value of a bit vector of any length, as the vector
\* without its leading (most significant) zeros: two vectors stand for the
\* same number exactly when their normal forms are equal.
Norm(x) ==
    IF \A i \in 1..Len(x) : x[i] = 0 THEN <<>>
    ELSE SubSeq(x, 1, CHOOSE i \in 1..Len(x) :
                          x[i] = 1 /\ \A j \in (i + 1)..Len(x) : x[j] = 0)

\* The largest value of a w-bit type.
MaxOf(w) == [i \in 1..w |-> 1]

----------------------------------------------------------------------------
(* Results *)

Ok(v) == [tag |-> "Ok", val |-> v]

Panic(m) == [tag |-> "Panic", msg |-> m]

SerializeError_buffer_too_small(what) ==
    [tag |-> "Err", kind |-> "SerializeError", what |-> what]

DeserializeError_generic(m) ==
    [tag |-> "Err", kind |-> "Generic", msg |-> m]

DeserializeError_buffer_too_small(what) ==
    [tag |-> "Err", kind |-> "BufferTooSmall", what |-> what]

DeserializeError_invalid_usize(what) ==
    [tag |-> "Err", kind |-> "InvalidUsize", what |-> what]

DeserializeError_invalid_varint(what) ==
    [tag |-> "Err", kind |-> "InvalidVarint", what |-> what]

DeserializeError_version_mismatch(expected, found) ==
    [tag |-> "Err", kind |-> "VersionMismatch",
     expected |-> expected, found |-> found]

DeserializeError_endian_mismatch(expected, found) ==
    [tag |-> "Err", kind |-> "EndianMismatch",
     expected |-> expected, found |-> found]

DeserializeError_label_mismatch(expected) ==
    [tag |-> "Err", kind |-> "LabelMismatch", expected |-> expected]

DeserializeError_arithmetic_overflow(what) ==
    [tag |-> "Err", kind |-> "ArithmeticOverflow", what |-> what]

----------------------------------------------------------------------------
(* Slices *)

\* slice[from..]: Rust panics when from > slice.len(); callers here never do.
SliceFrom(s, from) == SubSeq(s, from + 1, Len(s))

\* slice[..to]
SliceTo(s, to) == SubSeq(s, 1, to)

Min(a, b) == IF a < b THEN a ELSE b

\* dst[..Len(src)].copy_from_slice(src), for a dst that is long enough.
copy_from_slice(dst, src) ==
    [i \in 1..Len(dst) |-> IF i <= Len(src) THEN src[i] ELSE dst[i]]

----------------------------------------------------------------------------
(* Byte order *)

\* n.to_le_bytes(): the bytes of n, least significant first.
to_le_bytes(n) ==
    [k \in 1..(Len(n) \div 8) |-> ToNat(SubSeq(n, 8 * (k - 1) + 1, 8 * k))]

\* n.to_be_bytes(): the bytes of n, most significant first.
to_be_bytes(n) ==
    LET le == to_le_bytes(n)
    IN  [k \in 1..Len(le) |-> le[Len(le) + 1 - k]]

from_le_bytes(bytes) ==
    [i \in 1..(8 * Len(bytes)) |->
        FromNat(bytes[((i - 1) \div 8) + 1], 8)[((i - 1) % 8) + 1]]

from_be_bytes(bytes) ==
    from_le_bytes([k \in 1..Len(bytes) |-> bytes[Len(bytes) + 1 - k]])

\* from_ne_bytes as it would be were the target's byte order taken to be
\* little-endian everywhere.
from_ne_bytes_le_only(bytes) == from_le_bytes(bytes)

\* uW::from_ne_bytes: the target's byte order decides.
from_ne_bytes(bytes) ==
    IF native = "LE" THEN from_le_bytes(bytes) ELSE from_be_bytes(bytes)

\* The byte order NE names on this target.
NE == native

\* <E as Endian>::write_u16 / write_u32 / write_u64 for E = "LE" or "BE":
\* dst[..W] is overwritten; indexing panics when dst is shorter than W bytes.
Endian_write(E, n, dst) ==
    LET bytes == IF E = "LE" THEN to_le_bytes(n) ELSE to_be_bytes(n)
    IN  IF Len(dst) < Len(bytes)
        THEN [ret |-> Panic("range end index out of range"), dst |-> dst]
        ELSE [ret |-> Ok(Len(bytes)), dst |-> copy_from_slice(dst, bytes)]

----------------------------------------------------------------------------
(* Fixed width reads *)

\* size_of::<u16>(), size_of::<u32>(), size_of::<u64>()
size_of(w) == w \div 8

\* read_u16 / read_u32 / read_u64 (w = 16, 32, 64): panics on a short slice.
read_uW(w, slice) ==
    IF Len(slice) < size_of(w)
    THEN Panic("range end index out of range")
    ELSE Ok(from_ne_bytes(SliceTo(slice, size_of(w))))

\* try_read_uW without its length test.
try_read_uW_unchecked(w, slice, what) ==
    LET r == read_uW(w, slice)
    IN  IF r.tag = "Panic" THEN r ELSE Ok(<<r.val, size_of(w)>>)

\* try_read_u16 / try_read_u32 / try_read_u64
try_read_uW(w, slice, what) ==
    IF Len(slice) < size_of(w)
    THEN DeserializeError_buffer_too_small(what)
    ELSE LET r == read_uW(w, slice)
         IN  IF r.tag = "Panic" THEN r ELSE Ok(<<r.val, size_of(w)>>)

\* usize::try_from(n) for an unsigned n: fails when n > usize::MAX.
usize_try_from(n) ==
    IF GePow2(n, usize_bits) THEN [tag |-> "Err"] ELSE Ok(Cast(n, usize_bits))

\* try_read_u16_as_usize / try_read_u32_as_usize / try_read_u64_as_usize
try_read_uW_as_usize(w, slice, what) ==
    LET r == try_read_uW(w, slice, what)
    IN  IF r.tag # "Ok" THEN r
        ELSE LET c == usize_try_from(r.val[1])
             IN  IF c.tag = "Ok" THEN Ok(<<c.val, r.val[2]>>)
                 ELSE DeserializeError_invalid_usize(what)

----------------------------------------------------------------------------
(* Labels *)

\* padding_len without its final mask: 4, not 0, for a multiple of 4.
padding_len_unmasked(non_padding_len) == 4 - (non_padding_len % 4)

\* padding_len(non_padding_len) = (4 - (non_padding_len & 0b11)) & 0b11
padding_len(non_padding_len) == (4 - (non_padding_len % 4)) % 4

\* s.iter().position(|&b| b == 0), scanning from index i: the index of the
\* first NUL among the bytes of s, or -1 for None.
position_nul(s, i) ==
    LET nuls == {j \in i..(Len(s) - 1) : s[j + 1] = 0}
    IN  IF nuls = {} THEN -1
        ELSE CHOOSE j \in nuls : \A k \in nuls : j <= k

MAX_LABEL_LEN == 255

LABEL_SCAN_LEN == 256

\* write_label_len rejecting a label of 255 bytes as well.
write_label_len_limit_254(label) ==
    IF Len(label) >= MAX_LABEL_LEN
    THEN Panic("label must not be longer than 255 bytes")
    ELSE IF position_nul(label, 0) # -1
    THEN Panic("label must not contain NUL bytes")
    ELSE LET label_len == Len(label) + 1
         IN  Ok(label_len + padding_len(label_len))

write_label_len(label) ==
    IF Len(label) > MAX_LABEL_LEN
    THEN Panic("label must not be longer than 255 bytes")
    ELSE IF position_nul(label, 0) # -1
    THEN Panic("label must not contain NUL bytes")
    ELSE LET label_len == Len(label) + 1
         IN  Ok(label_len + padding_len(label_len))

\* zero_fill writing the terminator only, not the padding.
zero_fill_terminator_only(dst, from, count) ==
    [i \in 1..Len(dst) |-> IF count > 0 /\ i = from + 1 THEN 0 ELSE dst[i]]

\* dst[label.len() + i] = 0 for i in 0..count
zero_fill(dst, from, count) ==
    [i \in 1..Len(dst) |->
        IF from < i /\ i <= from + count THEN 0 ELSE dst[i]]

write_label(label, dst) ==
    LET l == write_label_len(label)
    IN  IF l.tag = "Panic" THEN [ret |-> l, dst |-> dst]
        ELSE LET nwrite == l.val
                 copied == copy_from_slice(dst, label)
                 filled == zero_fill(copied, Len(label), nwrite - Len(label))
             IN  IF Len(dst) < nwrite
                 THEN [ret |-> SerializeError_buffer_too_small("label"),
                       dst |-> dst]
                 ELSE IF nwrite % 4 # 0
                 THEN [ret |-> Panic("assertion failed: nwrite % 4 == 0"),
                       dst |-> filled]
                 ELSE [ret |-> Ok(nwrite), dst |-> filled]

\* read_label scanning the whole slice for the NUL, not its first 256 bytes.
read_label_scan_all(slice, expected_label) ==
    LET first_nul == position_nul(slice, 0)
        len == first_nul + padding_len(first_nul)
    IN  IF first_nul = -1
        THEN DeserializeError_generic("could not find NUL terminated label")
        ELSE IF Len(slice) < len
        THEN DeserializeError_generic("could not find properly sized label")
        ELSE IF expected_label # SliceTo(slice, first_nul)
        THEN DeserializeError_label_mismatch(expected_label)
        ELSE Ok(len)

read_label(slice, expected_label) ==
    LET first_nul ==
            position_nul(SliceTo(slice, Min(Len(slice), LABEL_SCAN_LEN)), 0)
        len == first_nul + padding_len(first_nul)
    IN  IF first_nul = -1
        THEN DeserializeError_generic("could not find NUL terminated label")
        ELSE IF Len(slice) < len
        THEN DeserializeError_generic("could not find properly sized label")
        ELSE IF first_nul > Len(slice)
        THEN Panic("range end index out of range")
        ELSE IF expected_label # SliceTo(slice, first_nul)
        THEN DeserializeError_label_mismatch(expected_label)
        ELSE Ok(len)

----------------------------------------------------------------------------
(* Endianness check and version *)

\* 0xFEFF as a u32
ENDIAN_MARK == FromNat(65279, 32)

write_endianness_check_len == size_of(32)

\* write_endianness_check writing the marker little-endian whatever E is.
write_endianness_check_le_only(E, dst) ==
    LET nwrite == write_endianness_check_len
    IN  IF Len(dst) < nwrite
        THEN [ret |-> SerializeError_buffer_too_small("endianness check"),
              dst |-> dst]
        ELSE LET w == Endian_write("LE", ENDIAN_MARK, dst)
             IN  IF w.ret.tag = "Panic" THEN w
                 ELSE [ret |-> Ok(nwrite), dst |-> w.dst]

write_endianness_check(E, dst) ==
    LET nwrite == write_endianness_check_len
    IN  IF Len(dst) < nwrite
        THEN [ret |-> SerializeError_buffer_too_small("endianness check"),
              dst |-> dst]
        ELSE LET w == Endian_write(E, ENDIAN_MARK, dst)
             IN  IF w.ret.tag = "Panic" THEN w
                 ELSE [ret |-> Ok(nwrite), dst |-> w.dst]

read_endianness_check(slice) ==
    LET r == try_read_uW(32, slice, "endianness check")
    IN  IF r.tag # "Ok" THEN r
        ELSE IF r.val[2] # write_endianness_check_len
        THEN Panic("assertion failed: nr == write_endianness_check_len()")
        ELSE IF r.val[1] # ENDIAN_MARK
        THEN DeserializeError_endian_mismatch(ENDIAN_MARK, r.val[1])
        ELSE Ok(r.val[2])

write_version_len == size_of(32)

\* write_version refusing a destination of exactly four bytes.
write_version_off_by_one(E, version, dst) ==
    LET nwrite == write_version_len
    IN  IF Len(dst) <= nwrite
        THEN [ret |-> SerializeError_buffer_too_small("version number"),
              dst |-> dst]
        ELSE LET w == Endian_write(E, version, dst)
             IN  IF w.ret.tag = "Panic" THEN w
                 ELSE [ret |-> Ok(nwrite), dst |-> w.dst]

write_version(E, version, dst) ==
    LET nwrite == write_version_len
    IN  IF Len(dst) < nwrite
        THEN [ret |-> SerializeError_buffer_too_small("version number"),
              dst |-> dst]
        ELSE LET w == Endian_write(E, version, dst)
             IN  IF w.ret.tag = "Panic" THEN w
                 ELSE [ret |-> Ok(nwrite), dst |-> w.dst]

\* read_version without the comparison against the expected version.
read_version_uncompared(slice, expected_version) ==
    LET r == try_read_uW(32, slice, "version")
    IN  IF r.tag # "Ok" THEN r
        ELSE IF r.val[2] # write_version_len
        THEN Panic("assertion failed: nr == write_version_len()")
        ELSE Ok(r.val[2])

read_version(slice, expected_version) ==
    LET r == try_read_uW(32, slice, "version")
    IN  IF r.tag # "Ok" THEN r
        ELSE IF r.val[2] # write_version_len
        THEN Panic("assertion failed: nr == write_version_len()")
        ELSE IF r.val[1] # expected_version
        THEN DeserializeError_version_mismatch(expected_version, r.val[1])
        ELSE Ok(r.val[2])

----------------------------------------------------------------------------
(* Variable width integers *)

\* x.checked_shl(rhs) for a u32 rhs: None exactly when rhs >= BITS, and
\* otherwise x << rhs in the type's width (Rust's documented result).
checked_shl(x, rhs) ==
    IF GePow2(rhs, 7) \/ ToNat(Cast(rhs, 7)) >= Len(x)
    THEN [tag |-> "None"]
    ELSE [tag |-> "Some", val |-> Shl(x, ToNat(Cast(rhs, 7)))]

\* 0b1000_0000 and 0b0111_1111
CONT_BIT == 128

LOW_7_BITS == 127

\* The bits a varint byte carries.
GROUP_BITS == 7

\* The most bytes read_varu64 looks at.
VARINT_LIMIT == 10

RECURSIVE write_varu64_loop(_, _, _, _)
\* The state of write_varu64 before its loop test: n, i and dst.
write_varu64_loop(n, what, dst, i) ==
    IF GePow2(n, GROUP_BITS)
    THEN IF i >= Len(dst)
         THEN [ret |-> SerializeError_buffer_too_small(what), dst |-> dst]
         ELSE write_varu64_loop(
                  Shr(n, GROUP_BITS), what,
                  [dst EXCEPT ![i + 1] =
                      ToNat(BitOr(Cast(n, 8), FromNat(CONT_BIT, 8)))],
                  i + 1)
    ELSE IF i >= Len(dst)
         THEN [ret |-> SerializeError_buffer_too_small(what), dst |-> dst]
         ELSE [ret |-> Ok(i + 1),
               dst |-> [dst EXCEPT ![i + 1] = ToNat(Cast(n, 8))]]

write_varu64(n, what, dst) == write_varu64_loop(n, what, dst, 0)

RECURSIVE write_varu64_len_loop(_, _)
write_varu64_len_loop(n, i) ==
    IF GePow2(n, GROUP_BITS)
    THEN write_varu64_len_loop(Shr(n, GROUP_BITS), i + 1)
    ELSE i + 1

write_varu64_len(n) == write_varu64_len_loop(n, 0)

RECURSIVE read_varu64_loop(_, _, _, _, _, _)
\* The state of read_varu64 at the top of its loop over slice[..limit].
read_varu64_loop(slice, what, limit, i, n, shift) ==
    IF i >= limit THEN DeserializeError_invalid_varint(what)
    ELSE LET b == slice[i + 1]
         IN  IF b < CONT_BIT
             THEN LET s == checked_shl(FromNat(b, 64), FromNat(shift, 32))
                  IN  IF s.tag = "None"
                      THEN DeserializeError_invalid_varint(what)
                      ELSE Ok(<<BitOr(n, s.val), i + 1>>)
             ELSE LET s == checked_shl(
                          BitAnd(FromNat(b, 64), FromNat(LOW_7_BITS, 64)),
                          FromNat(shift, 32))
                  IN  IF s.tag = "None"
                      THEN DeserializeError_invalid_varint(what)
                      ELSE read_varu64_loop(slice, what, limit, i + 1,
                               BitOr(n, s.val), shift + GROUP_BITS)

\* read_varu64 with the limit one byte short.
read_varu64_limit9(slice, what) ==
    read_varu64_loop(slice, what, Min(Len(slice), VARINT_LIMIT - 1), 0,
                     FromNat(0, 64), 0)

read_varu64(slice, what) ==
    read_varu64_loop(slice, what, Min(Len(slice), VARINT_LIMIT), 0,
                     FromNat(0, 64), 0)

\* read_varu64_as_usize with a truncating cast (`as usize`) in place of
\* usize::try_from.
read_varu64_as_usize_truncating(slice, what) ==
    LET r == read_varu64(slice, what)
    IN  IF r.tag # "Ok" THEN r
        ELSE Ok(<<Cast(r.val[1], usize_bits), r.val[2]>>)

read_varu64_as_usize(slice, what) ==
    LET r == read_varu64(slice, what)
    IN  IF r.tag # "Ok" THEN r
        ELSE LET c == usize_try_from(r.val[1])
             IN  IF c.tag = "Ok" THEN Ok(<<c.val, r.val[2]>>)
                 ELSE DeserializeError_invalid_usize(what)

----------------------------------------------------------------------------
(* Checked arithmetic on usize *)

\* The machine adds and multiplies byte by byte: digits are carried in
\* base 256, and the bytes beyond the type's width are the overflow.

RECURSIVE add_digits(_, _, _, _)
\* The digits of a + b from digit k on, with the carry into k; one digit
\* longer than a.
add_digits(a, b, k, carry) ==
    IF k > Len(a) THEN <<carry>>
    ELSE LET d == a[k] + b[k] + carry
         IN  <<d % 256>> \o add_digits(a, b, k + 1, d \div 256)

RECURSIVE mul_column(_, _, _, _)
\* The sum of a[i] * b[k + 1 - i] over the digits i..Len(a) of a.
mul_column(a, b, k, i) ==
    IF i > Len(a) THEN 0
    ELSE (IF 1 <= k + 1 - i /\ k + 1 - i <= Len(b)
          THEN a[i] * b[k + 1 - i] ELSE 0)
         + mul_column(a, b, k, i + 1)

RECURSIVE mul_digits(_, _, _, _)
\* The digits of a * b from digit k on, with the carry into k; twice as
\* long as a.
mul_digits(a, b, k, carry) ==
    IF k > 2 * Len(a) THEN <<>>
    ELSE LET d == mul_column(a, b, k, 1) + carry
         IN  <<d % 256>> \o mul_digits(a, b, k + 1, d \div 256)

\* a.checked_add(b): None when the sum does not fit the type.
checked_add(a, b) ==
    LET sum == from_le_bytes(add_digits(to_le_bytes(a), to_le_bytes(b), 1, 0))
    IN  IF GePow2(sum, Len(a)) THEN [tag |-> "None"]
        ELSE [tag |-> "Some", val |-> Cast(sum, Len(a))]

\* a.checked_mul(b): None when the product does not fit the type.
checked_mul(a, b) ==
    LET prod == from_le_bytes(mul_digits(to_le_bytes(a), to_le_bytes(b), 1, 0))
    IN  IF GePow2(prod, Len(a)) THEN [tag |-> "None"]
        ELSE [tag |-> "Some", val |-> Cast(prod, Len(a))]

\* u32::try_from(b) for a usize b: fails when b > u32::MAX.
u32_try_from(b) ==
    IF GePow2(b, 32) THEN [tag |-> "Err"] ELSE Ok(Cast(b, 32))

\* mul with a wrapping multiplication in place of the checked one.
mul_wrapping(a, b, what) ==
    Ok(Cast(from_le_bytes(mul_digits(to_le_bytes(a), to_le_bytes(b), 1, 0)),
            Len(a)))

mul(a, b, what) ==
    LET c == checked_mul(a, b)
    IN  IF c.tag = "Some" THEN Ok(c.val)
        ELSE DeserializeError_arithmetic_overflow(what)

add(a, b, what) ==
    LET c == checked_add(a, b)
    IN  IF c.tag = "Some" THEN Ok(c.val)
        ELSE DeserializeError_arithmetic_overflow(what)

shl(a, b, what) ==
    LET amount == u32_try_from(b)
    IN  IF amount.tag # "Ok" THEN DeserializeError_arithmetic_overflow(what)
        ELSE LET c == checked_shl(a, amount.val)
             IN  IF c.tag = "Some" THEN Ok(c.val)
                 ELSE DeserializeError_arithmetic_overflow(what)

----------------------------------------------------------------------------
(* Padding *)

\* The most padding bytes skip_initial_padding reads.
MAX_PADDING == 7

RECURSIVE skip_initial_padding_loop(_, _)
\* The state of skip_initial_padding at its loop test; slice[nread] is only
\* read after nread < slice.len() has been tested.
skip_initial_padding_loop(slice, nread) ==
    IF nread < MAX_PADDING /\ nread < Len(slice)
    THEN IF nread >= Len(slice) THEN Panic("index out of bounds")
         ELSE IF slice[nread + 1] = 0
         THEN skip_initial_padding_loop(slice, nread + 1)
         ELSE Ok(nread)
    ELSE Ok(nread)

\* skip_initial_padding without the limit of 7 bytes: every leading NUL.
skip_initial_padding_uncapped(slice) ==
    LET others == {j \in 0..(Len(slice) - 1) : slice[j + 1] # 0}
    IN  IF others = {} THEN Ok(Len(slice))
        ELSE Ok(CHOOSE j \in others : \A k \in others : j <= k)

\* The usize returned is Ok(nread).
skip_initial_padding(slice) == skip_initial_padding_loop(slice, 0)

----------------------------------------------------------------------------
(* Pattern and state identifiers.  The identifier types live in crate::id; *)
(* they are four bytes wide and their conversion from bytes rejects the    *)
(* values above the type's limit.                                          *)

PatternID_SIZE == 4

StateID_SIZE == 4

\* PatternID::from_ne_bytes / StateID::from_ne_bytes: the identifier, or the
\* type's error for a value above its limit (2^31 - 2).
ID_from_ne_bytes(bytes) ==
    LET v == from_ne_bytes(bytes)
    IN  IF GePow2(v, 31) \/ Cast(v, 31) = MaxOf(31)
        THEN [tag |-> "Err", attempted |-> v]
        ELSE Ok(v)

DeserializeError_pattern_id_error(err, what) ==
    [tag |-> "Err", kind |-> "PatternID", err |-> err, what |-> what]

DeserializeError_state_id_error(err, what) ==
    [tag |-> "Err", kind |-> "StateID", err |-> err, what |-> what]

\* write_pattern_id::<E>(pid, dst): the usize returned is Ok(SIZE); the
\* write panics when dst is shorter than SIZE bytes.
write_pattern_id(E, pid, dst) ==
    LET w == Endian_write(E, pid, dst)
    IN  IF w.ret.tag = "Panic" THEN w
        ELSE [ret |-> Ok(PatternID_SIZE), dst |-> w.dst]

\* write_state_id::<E>(sid, dst)
write_state_id(E, sid, dst) ==
    LET w == Endian_write(E, sid, dst)
    IN  IF w.ret.tag = "Panic" THEN w
        ELSE [ret |-> Ok(StateID_SIZE), dst |-> w.dst]

\* read_pattern_id wrapping the validator's failure as a state ID error.
read_pattern_id_as_state_error(slice, what) ==
    IF Len(slice) < PatternID_SIZE
    THEN Panic("range end index out of range")
    ELSE LET pid == ID_from_ne_bytes(SliceTo(slice, PatternID_SIZE))
         IN  IF pid.tag = "Ok" THEN Ok(<<pid.val, PatternID_SIZE>>)
             ELSE DeserializeError_state_id_error(pid, what)

read_pattern_id(slice, what) ==
    IF Len(slice) < PatternID_SIZE
    THEN Panic("range end index out of range")
    ELSE LET pid == ID_from_ne_bytes(SliceTo(slice, PatternID_SIZE))
         IN  IF pid.tag = "Ok" THEN Ok(<<pid.val, PatternID_SIZE>>)
             ELSE DeserializeError_pattern_id_error(pid, what)

try_read_pattern_id(slice, what) ==
    IF Len(slice) < PatternID_SIZE
    THEN DeserializeError_buffer_too_small(what)
    ELSE read_pattern_id(slice, what)

read_state_id(slice, what) ==
    IF Len(slice) < StateID_SIZE
    THEN Panic("range end index out of range")
    ELSE LET sid == ID_from_ne_bytes(SliceTo(slice, StateID_SIZE))
         IN  IF sid.tag = "Ok" THEN Ok(<<sid.val, StateID_SIZE>>)
             ELSE DeserializeError_state_id_error(sid, what)

try_read_state_id(slice, what) ==
    IF Len(slice) < StateID_SIZE
    THEN DeserializeError_buffer_too_small(what)
    ELSE read_state_id(slice, what)

----------------------------------------------------------------------------
(* Inputs *)

\* Bounds of the model.
MaxLabelLen == 5

MaxBuf == 16

\* All sequences over S of length at most n.
SeqsUpTo(S, n) == UNION {[1..k -> S] : k \in 0..n}

\* Label text: 'a' and 'b'.
LabelBytes == {97, 98}

Labels == SeqsUpTo(LabelBytes, MaxLabelLen)

\* What a destination buffer holds before it is written: NULs, or garbage.
FillBytes == {0, 255}

Blank(len, fill) == [i \in 1..len |-> fill]

\* Version numbers: 3, 0x01020304 and u32::MAX.
Versions == {FromNat(3, 32), FromNat(16909060, 32), MaxOf(32)}

Endians == {"LE", "BE"}

----------------------------------------------------------------------------
(* A serializer writes a header (label, endianness check, version) into    *)
(* buf with the target's byte order, advancing its cursor by each returned *)
(* count; a deserializer reads the header back from the same buffer,       *)
(* advancing its own cursor by each returned count.  Each side stops at    *)
(* its first error.                                                        *)

Init ==
    /\ native \in Endians
    /\ usize_bits = 64
    /\ inp \in [label : Labels, version : Versions]
    /\ \E len \in 0..MaxBuf, fill \in FillBytes : buf = Blank(len, fill)
    /\ pc = [w |-> "label", r |-> "label"]
    /\ wret = <<>>
    /\ rret = <<>>
    /\ wcur = 0
    /\ rcur = 0

\* One step of the serializer: w is the writer's [ret, dst] on buf[wcur..].
Wrote(w, next) ==
    /\ buf' = SliceTo(buf, wcur) \o w.dst
    /\ wret' = Append(wret, w.ret)
    /\ wcur' = IF w.ret.tag = "Ok" THEN wcur + w.ret.val ELSE wcur
    /\ pc' = [pc EXCEPT !.w = IF w.ret.tag = "Ok" THEN next ELSE "failed"]
    /\ UNCHANGED <<native, usize_bits, inp, rret, rcur>>

\* One step of the deserializer: r is the reader's result on buf[rcur..].
DidRead(r, next) ==
    /\ rret' = Append(rret, r)
    /\ rcur' = IF r.tag = "Ok" THEN rcur + r.val ELSE rcur
    /\ pc' = [pc EXCEPT !.r = IF r.tag = "Ok" THEN next ELSE "failed"]
    /\ UNCHANGED <<native, usize_bits, inp, buf, wret, wcur>>

WriteLabel ==
    /\ pc.w = "label"
    /\ Wrote(write_label(inp.label, SliceFrom(buf, wcur)), "endian")

WriteEndiannessCheck ==
    /\ pc.w = "endian"
    /\ Wrote(write_endianness_check(NE, SliceFrom(buf, wcur)), "version")

WriteVersion ==
    /\ pc.w = "version"
    /\ Wrote(write_version(NE, inp.version, SliceFrom(buf, wcur)), "done")

ReadLabel ==
    /\ pc.r = "label"
    /\ pc.w \in {"endian", "version", "done"}
    /\ DidRead(read_label(SliceFrom(buf, rcur), inp.label), "endian")

ReadEndiannessCheck ==
    /\ pc.r = "endian"
    /\ pc.w \in {"version", "done"}
    /\ DidRead(read_endianness_check(SliceFrom(buf, rcur)), "version")

ReadVersion ==
    /\ pc.r = "version"
    /\ pc.w = "done"
    /\ DidRead(read_version(SliceFrom(buf, rcur), inp.version), "done")

Next ==
    \/ WriteLabel
    \/ WriteEndiannessCheck
    \/ WriteVersion
    \/ ReadLabel
    \/ ReadEndiannessCheck
    \/ ReadVersion

Spec == Init /\ [][Next]_vars

----------------------------------------------------------------------------
(* Claims about the header *)

\* C1: for every valid label L, once write_label has written L into a large
\* enough buffer, read_label on that buffer with expected label L returns
\* Ok(n), where n is write_label_len(L), the count write_label returned.
C1_LabelRoundTrip ==
    (Len(wret) >= 1 /\ wret[1].tag = "Ok" /\ Len(rret) >= 1) =>
        /\ rret[1] = Ok(write_label_len(inp.label).val)
        /\ rret[1] = wret[1]

\* C2: a header written by write_label, write_endianness_check::<NE> and
\* write_version::<NE>, each at the cursor the previous count gives, is
\* accepted by read_label, read_endianness_check and read_version: no read
\* fails, and the reader's final cursor is the writer's final cursor.
C2_HeaderAccepted ==
    /\ \A i \in 1..Len(rret) : rret[i].tag = "Ok"
    /\ (pc.r = "done" => rcur = wcur)

----------------------------------------------------------------------------
(* Calls of one function.  The caller is given the inputs of one call      *)
(* (inp.fn names the function).  A reader or helper returns to pc = its    *)
(* name.  A writer returns to pc = "written" with Ok, and then a matching  *)
(* reader is called on the buffer it wrote, or to pc = "failed".           *)

MaxSmall == 3

MaxCont == 10

MaxDst == 11

\* 2^k and 2^k - 1 as w-bit vectors.
PowerOfTwo(k, w) == [i \in 1..w |-> IF i = k + 1 THEN 1 ELSE 0]

LowOnes(k, w) == [i \in 1..w |-> IF i <= k THEN 1 ELSE 0]

Whats == {"x"}

\* u64 inputs: small numbers, the numbers around the first two group
\* boundaries, every power of two and every 2^k - 1.
U64Inputs ==
    {FromNat(n, 64) : n \in (0..MaxSmall) \cup {127, 128, 300, 16383, 16384}}
        \cup {PowerOfTwo(k, 64) : k \in 0..63}
        \cup {LowOnes(k, 64) : k \in 1..64}

\* Varint bytes: continuation bytes, terminating bytes, and what follows.
ContBytes == {128, 129, 255}

TermBytes == {0, 1, 2, 127}

VarintTails == {<<>>, <<0>>, <<255>>}

\* k continuation bytes, then nothing or a terminating byte and a tail.
VarintSlices ==
    LET conts == {[i \in 1..k |-> c] : k \in 0..MaxCont, c \in ContBytes}
    IN  conts \cup {c \o <<t>> \o tl :
                        c \in conts, t \in TermBytes, tl \in VarintTails}

VarintCalls ==
    {[fn |-> "write_varu64", n |-> n, what |-> w, dst |-> Blank(len, fill)] :
        n \in U64Inputs, w \in Whats, len \in 0..MaxDst, fill \in FillBytes}
    \cup
    {[fn |-> f, slice |-> sl, what |-> w] :
        f \in {"read_varu64", "read_varu64_as_usize"},
        sl \in VarintSlices, w \in Whats}

\* The caller before a call: the buffer holds the destination or the slice
\* of the call, if it takes one.
InitCall(calls, endians) ==
    /\ native \in endians
    /\ usize_bits \in {32, 64}
    /\ inp \in calls
    /\ buf = (IF "dst" \in DOMAIN inp THEN inp.dst
              ELSE IF "slice" \in DOMAIN inp THEN inp.slice
              ELSE <<>>)
    /\ pc = "call"
    /\ wret = <<>>
    /\ rret = <<>>
    /\ wcur = 0
    /\ rcur = 0

\* A writer's [ret, dst] on the whole buffer.
WriterReturns(w) ==
    /\ buf' = w.dst
    /\ wret' = <<w.ret>>
    /\ wcur' = IF w.ret.tag = "Ok" THEN w.ret.val ELSE 0
    /\ pc' = IF w.ret.tag = "Ok" THEN "written" ELSE "failed"
    /\ UNCHANGED <<native, usize_bits, inp, rret, rcur>>

\* A reader's (or helper's) result.
ReaderReturns(f, r) ==
    /\ rret' = <<r>>
    /\ pc' = f
    /\ UNCHANGED <<native, usize_bits, inp, buf, wret, wcur, rcur>>

\* The call of reader f is due: directly, or after writer g has written.
Due(f, g) ==
    \/ pc = "call" /\ inp.fn = f
    \/ pc = "written" /\ inp.fn = g

CallWriteVaru64 ==
    /\ pc = "call"
    /\ inp.fn = "write_varu64"
    /\ WriterReturns(write_varu64(inp.n, inp.what, buf))

CallReadVaru64 ==
    /\ Due("read_varu64", "write_varu64")
    /\ ReaderReturns("read_varu64", read_varu64(buf, inp.what))

CallReadVaru64AsUsize ==
    /\ Due("read_varu64_as_usize", "write_varu64")
    /\ ReaderReturns("read_varu64_as_usize",
                     read_varu64_as_usize(buf, inp.what))

NextVarint ==
    \/ CallWriteVaru64
    \/ CallReadVaru64
    \/ CallReadVaru64AsUsize

SpecVarint == InitCall(VarintCalls, {"LE"}) /\ [][NextVarint]_vars

----------------------------------------------------------------------------
(* Claims about variable width integers *)

\* C3: for every u64 v, write_varu64(v) into a large enough buffer writes n
\* bytes with 1 <= n <= 10 and n = write_varu64_len(v), and read_varu64 on
\* those bytes returns Ok((v, n)); 0 is written as the byte 0x00 and 300 as
\* the bytes 0xAC, 0x02.
C3_VarintRoundTrip ==
    (inp.fn = "write_varu64" /\ Len(wret) = 1 /\ wret[1].tag = "Ok") =>
        LET n == wret[1].val
        IN  /\ 1 <= n /\ n <= 10
            /\ n = write_varu64_len(inp.n)
            /\ pc = "read_varu64" => rret[1] = Ok(<<inp.n, n>>)
            /\ inp.n = FromNat(0, 64) => SliceTo(buf, n) = <<0>>
            /\ inp.n = FromNat(300, 64) => SliceTo(buf, n) = <<172, 2>>

\* A value has been written in ten bytes and read back.
C3_Witness ==
    /\ inp.fn = "write_varu64"
    /\ pc = "read_varu64"
    /\ wret[1] = Ok(10)
    /\ rret[1].tag = "Ok"

\* The indexes, among the bytes read_varu64 looks at, of the bytes whose
\* high bit is clear.
Terminators(slice) ==
    {i \in 0..(Min(Len(slice), 10) - 1) : slice[i + 1] < 128}

\* The encoding that starts slice carries a 1 bit of weight 2^64 or more:
\* bit j of the 7 bit group of byte i has weight 2^(7i + j).
EncodesOver64Bits(slice) ==
    /\ Terminators(slice) # {}
    /\ LET t == CHOOSE i \in Terminators(slice) :
                    \A k \in Terminators(slice) : i <= k
       IN  \E i \in 0..t, j \in 0..6 :
               /\ (slice[i + 1] \div Pow2Table[j]) % 2 = 1
               /\ 7 * i + j >= 64

\* C4: read_varu64 rejects every encoding whose value does not fit in 64
\* bits with a malformed-varint error; it never returns Ok with the excess
\* high bits dropped.
C4_ShiftOverflowRejected ==
    (pc = "read_varu64" /\ EncodesOver64Bits(buf)) =>
        rret[1] = DeserializeError_invalid_varint(inp.what)

----------------------------------------------------------------------------
(* Calls of mul, add and shl *)

\* usize arguments: small numbers, and 2^k and 2^k - 1 around half the
\* width and around the full width.
UsizeInputs(w) ==
    {FromNat(n, w) : n \in 0..MaxSmall}
        \cup {PowerOfTwo(k, w) : k \in {w \div 2 - 1, w \div 2, w - 2, w - 1}}
        \cup {LowOnes(k, w) : k \in {w \div 2, w \div 2 + 1, w - 1, w}}

\* Shift amounts: small ones, those around the width, and huge ones.
ShiftInputs(w) ==
    {FromNat(n, w) : n \in (0..MaxSmall) \cup {w \div 2, w - 2, w - 1, w, w + 1}}
        \cup {PowerOfTwo(w - 1, w), PowerOfTwo(w \div 2, w), MaxOf(w)}

ArithCalls(w) ==
    {[fn |-> f, a |-> a, b |-> b, what |-> wh] :
        f \in {"mul", "add"}, a \in UsizeInputs(w), b \in UsizeInputs(w),
        wh \in Whats}
    \cup
    {[fn |-> "shl", a |-> a, b |-> b, what |-> wh] :
        a \in UsizeInputs(w), b \in ShiftInputs(w), wh \in Whats}

CallMul ==
    /\ pc = "call"
    /\ inp.fn = "mul"
    /\ ReaderReturns("mul", mul(inp.a, inp.b, inp.what))

CallAdd ==
    /\ pc = "call"
    /\ inp.fn = "add"
    /\ ReaderReturns("add", add(inp.a, inp.b, inp.what))

CallShl ==
    /\ pc = "call"
    /\ inp.fn = "shl"
    /\ ReaderReturns("shl", shl(inp.a, inp.b, inp.what))

NextArith ==
    \/ CallMul
    \/ CallAdd
    \/ CallShl

SpecArith == InitCall(ArithCalls(usize_bits), {"LE"}) /\ [][NextArith]_vars

----------------------------------------------------------------------------
(* Claims about mul, add and shl *)

\* Natural numbers of any size, as bit vectors without leading zeros, with
\* the sum and the product of school arithmetic in base 2: the bits of one
\* weight are counted and the carries ripple upwards.

\* The bit of weight 2^(i - 1) of x, 0 beyond its length.
BitAt(x, i) == IF 1 <= i /\ i <= Len(x) THEN x[i] ELSE 0

\* col[k + 1] units of weight 2^k each, eight weights from 2^(8m) on, as a
\* number of units of weight 2^(8m).
EightColumns(col, m) ==
    BitAt(col, 8 * m + 1) + 2 * BitAt(col, 8 * m + 2)
        + 4 * BitAt(col, 8 * m + 3) + 8 * BitAt(col, 8 * m + 4)
        + 16 * BitAt(col, 8 * m + 5) + 32 * BitAt(col, 8 * m + 6)
        + 64 * BitAt(col, 8 * m + 7) + 128 * BitAt(col, 8 * m + 8)

RECURSIVE RippleFrom(_, _, _)
\* The base 256 digits of the number of col from weight 2^(8m) on, with
\* the carry c into them.
RippleFrom(col, m, c) ==
    IF 8 * m >= Len(col) /\ c = 0 THEN <<>>
    ELSE LET d == EightColumns(col, m) + c
         IN  <<d % 256>> \o RippleFrom(col, m + 1, d \div 256)

\* The number that has col[k + 1] units of weight 2^k, for every k.
NatOfColumns(col) == Norm(from_le_bytes(RippleFrom(col, 0, 0)))

NatAdd(x, y) ==
    NatOfColumns([k \in 1..(IF Len(x) > Len(y) THEN Len(x) ELSE Len(y)) |->
                     BitAt(x, k) + BitAt(y, k)])

\* The number of pairs of 1 bits of x and y whose weights multiply to 2^k.
PairCount(x, y, k) ==
    Cardinality({i \in 1..Len(x) : x[i] = 1 /\ BitAt(y, k + 2 - i) = 1})

NatMul(x, y) ==
    NatOfColumns([k \in 1..(Len(x) + Len(y)) |-> PairCount(x, y, k - 1)])

\* x * 2^k
NatShl(x, k) ==
    IF Len(x) = 0 THEN <<>>
    ELSE [i \in 1..(Len(x) + k) |-> IF i <= k THEN 0 ELSE x[i - k]]

\* r is Ok(c) for the usize c that stands for the number x.
IsOkNat(r, x) ==
    /\ r.tag = "Ok"
    /\ Len(r.val) = usize_bits
    /\ Norm(r.val) = x

\* The exact result of the call: the product or the sum of the arguments.
Exact ==
    IF inp.fn = "mul" THEN NatMul(Norm(inp.a), Norm(inp.b))
    ELSE NatAdd(Norm(inp.a), Norm(inp.b))

\* C9: mul and add return Ok(c) with c the exact product / sum whenever it
\* is at most usize::MAX, and an arithmetic-overflow error tagged `what`
\* otherwise; mul(usize::MAX, 2), add(usize::MAX, 1) and shl(1, usize::BITS)
\* each return an arithmetic-overflow error.
C9_CheckedMulAdd ==
    /\ pc \in {"mul", "add"} =>
           IF Len(Exact) <= usize_bits
           THEN IsOkNat(rret[1], Exact)
           ELSE rret[1] = DeserializeError_arithmetic_overflow(inp.what)
    /\ (/\ pc \in {"mul", "add", "shl"}
        /\ \/ pc = "mul" /\ inp.a = MaxOf(usize_bits)
                         /\ inp.b = FromNat(2, usize_bits)
           \/ pc = "add" /\ inp.a = MaxOf(usize_bits)
                         /\ inp.b = FromNat(1, usize_bits)
           \/ pc = "shl" /\ inp.a = FromNat(1, usize_bits)
                         /\ inp.b = FromNat(usize_bits, usize_bits))
       => rret[1] = DeserializeError_arithmetic_overflow(inp.what)

\* mul(usize::MAX, 2) has returned its error.
C9_Witness ==
    /\ pc = "mul"
    /\ inp.a = MaxOf(usize_bits)
    /\ inp.b = FromNat(2, usize_bits)
    /\ rret[1].tag = "Err"

\* The shift amount b of a call of shl is a number below 256.
SmallShift == ~GePow2(inp.b, 8)

\* a * 2^b fits in usize.
ShiftFits ==
    \/ Norm(inp.a) = <<>>
    \/ SmallShift /\ Len(Norm(inp.a)) + ToNat(Cast(inp.b, 8)) <= usize_bits

\* C10: shl(a, b) returns Ok(c) only when c is the exact value a * 2^b, and
\* returns an arithmetic-overflow error for every a, b whose shifted value
\* does not fit in usize.
C10_ShlExact ==
    pc = "shl" =>
        /\ rret[1].tag = "Ok" =>
               /\ SmallShift
               /\ IsOkNat(rret[1], NatShl(Norm(inp.a), ToNat(Cast(inp.b, 8))))
        /\ ~ShiftFits =>
               rret[1] = DeserializeError_arithmetic_overflow(inp.what)

----------------------------------------------------------------------------
(* Calls of the fixed width writers and readers *)

MaxShort == 4

MaxSlice == 9

MaxVersion == 4

\* Untrusted bytes: every short slice over three byte values, and longer
\* slices: 1, 2, 3, ..., a run of one byte value, NULs followed by text, and
\* text followed by NULs.
RawBytes == {0, 1, 255}

RawSlices ==
    SeqsUpTo(RawBytes, MaxShort)
        \cup {[i \in 1..n |-> i] : n \in 0..MaxSlice}
        \cup {[i \in 1..n |-> b] : n \in 0..MaxSlice, b \in {0, 128, 255}}
        \cup {[i \in 1..n |-> IF i <= k THEN 0 ELSE 97] :
                  n \in 0..MaxSlice, k \in 0..MaxSlice}
        \cup {[i \in 1..n |-> IF i <= k THEN 97 ELSE 0] :
                  n \in 0..MaxSlice, k \in 0..MaxSlice}

Widths == {16, 32, 64}

\* Values of a w-bit type: small numbers, 0x0102, 0xFEFF, the two highest
\* powers of two, the largest value, and the value of the bytes 1, 2, 3, ...
UInputs(w) ==
    {FromNat(n, w) : n \in (0..MaxSmall) \cup {258, 65279}}
        \cup {PowerOfTwo(w - 8, w), PowerOfTwo(w - 1, w), MaxOf(w),
              from_le_bytes([i \in 1..(w \div 8) |-> i])}

VersionInputs == {FromNat(n, 32) : n \in 0..MaxVersion} \cup Versions

FixedCalls ==
    UNION {{[fn |-> "write_uW", w |-> w, E |-> E, n |-> n, what |-> wh,
             dst |-> Blank(len, fill)] :
               E \in Endians, n \in UInputs(w), wh \in Whats,
               len \in 0..MaxDst, fill \in FillBytes} : w \in Widths}
    \cup
    {[fn |-> f, w |-> w, what |-> wh, slice |-> sl] :
        f \in {"try_read_uW", "try_read_uW_as_usize"},
        w \in Widths, wh \in Whats, sl \in RawSlices}
    \cup
    {[fn |-> "write_endianness_check", E |-> E, dst |-> Blank(len, fill)] :
        E \in Endians, len \in 0..MaxDst, fill \in FillBytes}
    \cup
    {[fn |-> "write_version", E |-> E, version |-> v, expected |-> e,
      dst |-> Blank(len, fill)] :
        E \in Endians, v \in VersionInputs, e \in VersionInputs,
        len \in {0, 3, 4, MaxDst}, fill \in FillBytes}

\* <E as Endian>::write_u16 / write_u32 / write_u64
CallEndianWrite ==
    /\ pc = "call"
    /\ inp.fn = "write_uW"
    /\ WriterReturns(Endian_write(inp.E, inp.n, buf))

CallTryReadUW ==
    /\ Due("try_read_uW", "write_uW")
    /\ ReaderReturns("try_read_uW", try_read_uW(inp.w, buf, inp.what))

CallTryReadUWAsUsize ==
    /\ Due("try_read_uW_as_usize", "write_uW")
    /\ ReaderReturns("try_read_uW_as_usize",
                     try_read_uW_as_usize(inp.w, buf, inp.what))

CallWriteEndiannessCheck ==
    /\ pc = "call"
    /\ inp.fn = "write_endianness_check"
    /\ WriterReturns(write_endianness_check(inp.E, buf))

CallReadEndiannessCheck ==
    /\ Due("read_endianness_check", "write_endianness_check")
    /\ ReaderReturns("read_endianness_check", read_endianness_check(buf))

CallWriteVersion ==
    /\ pc = "call"
    /\ inp.fn = "write_version"
    /\ WriterReturns(write_version(inp.E, inp.version, buf))

CallReadVersion ==
    /\ Due("read_version", "write_version")
    /\ ReaderReturns("read_version", read_version(buf, inp.expected))

NextFixed ==
    \/ CallEndianWrite
    \/ CallTryReadUW
    \/ CallTryReadUWAsUsize
    \/ CallWriteEndiannessCheck
    \/ CallReadEndiannessCheck
    \/ CallWriteVersion
    \/ CallReadVersion

SpecFixed == InitCall(FixedCalls, Endians) /\ [][NextFixed]_vars

----------------------------------------------------------------------------
(* Claims about the fixed width readers, the endianness check and the      *)
(* version                                                                 *)

\* The number the bytes stand for in the target's byte order: its bit of
\* weight 2^p is bit p % 8 of the byte of significance p div 8, which is
\* byte p div 8 on a little endian target and counted from the end on a
\* big endian one.
NativeValue(bytes) ==
    [q \in 1..(8 * Len(bytes)) |->
        LET p == q - 1
            k == IF native = "LE" THEN p \div 8
                 ELSE (Len(bytes) - 1) - (p \div 8)
        IN  (bytes[k + 1] \div Pow2Table[p % 8]) % 2]

\* The value with the bytes of n in the opposite order.
SwapBytes(n) ==
    [q \in 1..Len(n) |->
        n[(Len(n) - 8 * (((q - 1) \div 8) + 1)) + ((q - 1) % 8) + 1]]

\* C6: try_read_u16/u32/u64 return a buffer-too-small error tagged `what`
\* exactly when the slice is shorter than W = 2, 4, 8 bytes, and otherwise
\* Ok((v, W)) with v the native-byte-order value of the first W bytes: the
\* value the native-endian writer wrote, or the byte-swapped value of what
\* the other writer wrote.  The _as_usize variants return the same pair, or
\* an integer-too-large error when v exceeds usize::MAX.
C6_TryRead ==
    pc \in {"try_read_uW", "try_read_uW_as_usize"} =>
        LET W == inp.w \div 8
            v == NativeValue(SliceTo(buf, W))
        IN  IF Len(buf) < W
            THEN rret[1] = DeserializeError_buffer_too_small(inp.what)
            ELSE /\ rret[1] # DeserializeError_buffer_too_small(inp.what)
                 /\ inp.fn = "write_uW" =>
                        v = (IF inp.E = native THEN inp.n
                             ELSE SwapBytes(inp.n))
                 /\ pc = "try_read_uW" => rret[1] = Ok(<<v, W>>)
                 /\ pc = "try_read_uW_as_usize" =>
                        IF Len(Norm(v)) > usize_bits
                        THEN rret[1] =
                                 DeserializeError_invalid_usize(inp.what)
                        ELSE /\ rret[1].tag = "Ok"
                             /\ rret[1].val[2] = W
                             /\ Len(rret[1].val[1]) = usize_bits
                             /\ Norm(rret[1].val[1]) = Norm(v)

\* A u64 written by the other byte order's writer has been read, and it
\* does not fit a 32 bit usize.
C6_Witness ==
    /\ pc = "try_read_uW_as_usize"
    /\ inp.fn = "write_uW"
    /\ inp.w = 64
    /\ inp.E # native
    /\ inp.n = FromNat(1, 64)
    /\ rret[1].tag = "Err"

\* 0xFFFE0000: 0xFEFF with its four bytes in the opposite order.
SwappedMark == [i \in 1..32 |-> IF i >= 18 THEN 1 ELSE 0]

\* C7: the marker written by write_endianness_check::<E> is accepted by
\* read_endianness_check exactly when E is the target's byte order: then
\* the read returns Ok(4); otherwise it fails with an endianness-mismatch
\* error (expected 0xFEFF, found the byte-swapped value).
C7_EndiannessCheck ==
    (pc = "read_endianness_check" /\ inp.fn = "write_endianness_check") =>
        IF inp.E = native
        THEN rret[1] = Ok(4)
        ELSE rret[1] = DeserializeError_endian_mismatch(
                           FromNat(65279, 32), SwappedMark)

\* A marker written in the other byte order has been read.
C7_Witness ==
    /\ pc = "read_endianness_check"
    /\ inp.fn = "write_endianness_check"
    /\ inp.E # native
    /\ rret[1].tag = "Err"

\* C8: read_version(slice, e) on the bytes written by write_version::<NE>(v)
\* returns Ok(4) if and only if v = e, and otherwise a version-mismatch
\* error carrying expected = e and found = v.
C8_VersionExactMatch ==
    (pc = "read_version" /\ inp.fn = "write_version" /\ inp.E = native) =>
        IF inp.version = inp.expected
        THEN rret[1] = Ok(4)
        ELSE rret[1] = DeserializeError_version_mismatch(
                           inp.expected, inp.version)

\* Version 3 has been written and read with expected version 4.
C8_Witness ==
    /\ pc = "read_version"
    /\ inp.E = native
    /\ inp.version = FromNat(3, 32)
    /\ inp.expected = FromNat(4, 32)
    /\ rret[1] = DeserializeError_version_mismatch(
                     FromNat(4, 32), FromNat(3, 32))

----------------------------------------------------------------------------
(* Calls of the readers and helpers on untrusted input *)

ExpectedLabels == SeqsUpTo({97}, MaxShort)

UntrustedCalls(w) ==
    {[fn |-> f, slice |-> sl, what |-> wh] :
        f \in {"skip_initial_padding", "read_endianness_check",
               "try_read_pattern_id", "try_read_state_id"},
        sl \in RawSlices, wh \in Whats}
    \cup
    {[fn |-> "read_label", slice |-> sl, expected |-> e] :
        sl \in RawSlices, e \in ExpectedLabels}
    \cup
    {[fn |-> "read_version", slice |-> sl, expected |-> e] :
        sl \in RawSlices, e \in Versions}
    \cup
    {[fn |-> f, w |-> width, what |-> wh, slice |-> sl] :
        f \in {"try_read_uW", "try_read_uW_as_usize"},
        width \in Widths, wh \in Whats, sl \in RawSlices}
    \cup
    {[fn |-> f, slice |-> sl, what |-> wh] :
        f \in {"read_varu64", "read_varu64_as_usize"},
        sl \in RawSlices \cup VarintSlices, wh \in Whats}
    \cup ArithCalls(w)

CallSkipInitialPadding ==
    /\ pc = "call"
    /\ inp.fn = "skip_initial_padding"
    /\ ReaderReturns("skip_initial_padding", skip_initial_padding(buf))

CallReadLabel ==
    /\ pc = "call"
    /\ inp.fn = "read_label"
    /\ ReaderReturns("read_label", read_label(buf, inp.expected))

CallTryReadPatternId ==
    /\ Due("try_read_pattern_id", "write_pattern_id")
    /\ ReaderReturns("try_read_pattern_id",
                     try_read_pattern_id(buf, inp.what))

CallTryReadStateId ==
    /\ Due("try_read_state_id", "write_state_id")
    /\ ReaderReturns("try_read_state_id", try_read_state_id(buf, inp.what))

NextUntrusted ==
    \/ CallSkipInitialPadding
    \/ CallReadLabel
    \/ CallReadEndiannessCheck
    \/ CallReadVersion
    \/ CallTryReadUW
    \/ CallTryReadUWAsUsize
    \/ CallTryReadPatternId
    \/ CallTryReadStateId
    \/ CallReadVaru64
    \/ CallReadVaru64AsUsize
    \/ CallMul
    \/ CallAdd
    \/ CallShl

SpecUntrusted ==
    InitCall(UntrustedCalls(usize_bits), Endians) /\ [][NextUntrusted]_vars

----------------------------------------------------------------------------
(* Claims about untrusted input *)

\* C5: no reader or helper that takes untrusted input panics: for every
\* slice and all arguments, skip_initial_padding, read_label,
\* read_endianness_check, read_version, try_read_u16/u32/u64 and their
\* _as_usize variants, try_read_pattern_id, try_read_state_id, read_varu64,
\* read_varu64_as_usize, mul, add and shl return a value or an error.
C5_NoPanic ==
    pc # "call" =>
        /\ Len(rret) = 1
        /\ rret[1].tag \in {"Ok", "Err"}
        /\ rret[1].tag = "Err" =>
               rret[1].kind \in
                   {"Generic", "BufferTooSmall", "InvalidUsize",
                    "InvalidVarint", "VersionMismatch", "EndianMismatch",
                    "LabelMismatch", "ArithmeticOverflow", "PatternID",
                    "StateID"}

\* A reader has returned from the empty slice.
C5_Witness ==
    /\ pc \in {"read_label", "read_varu64", "try_read_state_id"}
    /\ buf = <<>>
    /\ rret[1].tag = "Err"

----------------------------------------------------------------------------
(* Calls of padding_len, write_label_len, write_label and read_label *)

MaxPadInput == 40

\* The length of the buffers of the crate's tests ([0; 1024]).
TEST_BUF_LEN == 1024

\* "foo"
Foo == <<102, 111, 111>>

\* "foo\x00bar"
FooNulBar == <<102, 111, 111, 0, 98, 97, 114>>

\* "z".repeat(n)
LongLabel(n) == [i \in 1..n |-> 122]

\* Labels around the length limit.
LongLabels == {LongLabel(n) : n \in (MAX_LABEL_LEN - 1)..(MAX_LABEL_LEN + 2)}

\* Short text, the labels of the crate's tests, labels with a NUL byte and
\* labels around the length limit.
CallLabels ==
    Labels \cup {Foo, FooNulBar, <<0>>, <<97, 0>>, <<0, 97>>} \cup LongLabels

\* The lengths of destination buffers: the short ones and those around the
\* longest label.
DstLens ==
    (0..MaxDst) \cup {MAX_LABEL_LEN, LABEL_SCAN_LEN, LABEL_SCAN_LEN + 4,
                      TEST_BUF_LEN}

\* Serialized labels around the limit of read_label's scan: a long run of
\* text, then NULs.
LongSlices ==
    {LongLabel(k) \o Blank(p, 0) :
        k \in (LABEL_SCAN_LEN - 4)..(LABEL_SCAN_LEN + 1), p \in 0..MaxShort}

\* Serialized short labels: the text, its NUL, and up to three bytes, NUL or
\* not, where the padding is.
PaddedSlices ==
    {l \o <<0>> \o t : l \in ExpectedLabels, t \in SeqsUpTo(FillBytes, 3)}

LabelCalls ==
    {[fn |-> "padding_len", n |-> n] : n \in 0..MaxPadInput}
    \cup
    {[fn |-> "write_label_len", label |-> l] : l \in CallLabels}
    \cup
    {[fn |-> "write_label", label |-> l, dst |-> Blank(len, fill)] :
        l \in CallLabels, len \in DstLens, fill \in FillBytes}
    \cup
    {[fn |-> "read_label", slice |-> sl, expected |-> e] :
        sl \in RawSlices \cup LongSlices \cup PaddedSlices,
        e \in ExpectedLabels \cup {Foo} \cup LongLabels}

CallPaddingLen ==
    /\ pc = "call"
    /\ inp.fn = "padding_len"
    /\ ReaderReturns("padding_len", Ok(padding_len(inp.n)))

CallWriteLabelLen ==
    /\ pc = "call"
    /\ inp.fn = "write_label_len"
    /\ ReaderReturns("write_label_len", write_label_len(inp.label))

CallWriteLabel ==
    /\ pc = "call"
    /\ inp.fn = "write_label"
    /\ WriterReturns(write_label(inp.label, buf))

\* read_label on the buffer write_label has written, expecting its label.
CallReadLabelWritten ==
    /\ pc = "written"
    /\ inp.fn = "write_label"
    /\ ReaderReturns("read_label", read_label(buf, inp.label))

NextLabel ==
    \/ CallPaddingLen
    \/ CallWriteLabelLen
    \/ CallWriteLabel
    \/ CallReadLabelWritten
    \/ CallReadLabel

SpecLabel == InitCall(LabelCalls, {"LE"}) /\ [][NextLabel]_vars

----------------------------------------------------------------------------
(* Claims about padding and labels *)

C12_PaddingToEight ==
    pc = "padding_len" => rret[1] = Ok((8 - (inp.n % 8)) % 8)

\* A destination buffer large enough for a label, as in the crate's tests.
LargeEnough == Len(inp.dst) >= LABEL_SCAN_LEN + 4

\* C13: write_label_len("foo") = 8; write_label("foo") into a large-enough
\* buffer returns 8 and writes 'f', 'o', 'o' and five NULs; read_label on
\* that buffer, expecting "foo", returns 8.
C13_FooLabel ==
    /\ (pc = "write_label_len" /\ inp.label = Foo) => rret[1] = Ok(8)
    /\ (inp.fn = "write_label" /\ inp.label = Foo /\ LargeEnough
            /\ pc # "call") =>
           /\ wret[1] = Ok(8)
           /\ SliceTo(buf, 8) = Foo \o <<0, 0, 0, 0, 0>>
           /\ pc = "read_label" => rret[1] = Ok(8)

\* The label has a NUL byte.
HasNul(label) == \E i \in 1..Len(label) : label[i] = 0

\* A label write_label takes: at most 255 bytes, none of them NUL.
ValidLabel(label) == Len(label) <= 255 /\ ~HasNul(label)

\* The smallest multiple of 4 strictly greater than len.
NextMultipleOfFour(len) == 4 * ((len \div 4) + 1)

C16_BadLabelPanics ==
    /\ pc = "write_label_len" =>
           /\ ~ValidLabel(inp.label) => rret[1].tag = "Panic"
           /\ inp.label = LongLabel(255) => rret[1] = Ok(256)
    /\ (inp.fn = "write_label" /\ pc # "call") =>
           /\ ~ValidLabel(inp.label) => wret[1].tag = "Panic" /\ buf = inp.dst
           /\ (inp.label = LongLabel(255) /\ Len(inp.dst) >= 256) =>
                  /\ wret[1] = Ok(256)
                  /\ SliceTo(buf, 256) = LongLabel(255) \o <<0>>

\* write_label has panicked on "foo\x00bar" with an empty destination, and
\* on a label of 256 bytes with a large one.
C16_Witness ==
    /\ inp.fn = "write_label"
    /\ pc = "failed"
    /\ wret[1].tag = "Panic"
    /\ \/ inp.label = FooNulBar /\ inp.dst = <<>>
       \/ inp.label = LongLabel(256) /\ Len(inp.dst) = TEST_BUF_LEN

----------------------------------------------------------------------------
(* Calls of the fallible writers *)

WriterCalls ==
    {c \in LabelCalls \cup VarintCalls \cup FixedCalls :
        c.fn \in {"write_label", "write_varu64", "write_endianness_check",
                  "write_version"}}

NextWriters ==
    \/ CallWriteLabel
    \/ CallWriteVaru64
    \/ CallWriteEndiannessCheck
    \/ CallWriteVersion

SpecWriters == InitCall(WriterCalls, Endians) /\ [][NextWriters]_vars

\* What the writer's length function returns for the inputs of the call.
WriterLen ==
    CASE inp.fn = "write_label" -> write_label_len(inp.label)
      [] inp.fn = "write_varu64" -> Ok(write_varu64_len(inp.n))
      [] inp.fn = "write_endianness_check" -> Ok(write_endianness_check_len)
      [] inp.fn = "write_version" -> Ok(write_version_len)

\* C15: write_label, write_varu64, write_endianness_check and write_version
\* return Ok(k), k what the matching length function returns, exactly when
\* dst.len() >= k, and a buffer-too-small SerializeError exactly when
\* dst.len() < k.
C15_WritersAgreeWithLen ==
    (pc # "call" /\ WriterLen.tag = "Ok") =>
        LET k == WriterLen.val
        IN  /\ Len(inp.dst) >= k => wret[1] = Ok(k)
            /\ Len(inp.dst) < k =>
                   /\ wret[1].tag = "Err"
                   /\ wret[1].kind = "SerializeError"

\* write_varu64 has failed on a destination one byte short of ten.
C15_Witness ==
    /\ inp.fn = "write_varu64"
    /\ pc = "failed"
    /\ write_varu64_len(inp.n) = 10
    /\ Len(inp.dst) = 9
    /\ wret[1].tag = "Err"

----------------------------------------------------------------------------
(* Alignment.  An address is a number; of the addresses the allocator hands *)
(* out only the residues modulo 8 matter, so they are kept small.           *)

DeserializeError_alignment_mismatch(alignment, address) ==
    [tag |-> "Err", kind |-> "AlignmentMismatch", alignment |-> alignment,
     address |-> address]

\* check_alignment::<T>(slice), for align = align_of::<T>() and address =
\* slice.as_ptr() as usize.
check_alignment(align, address) ==
    IF address % align = 0 THEN Ok(<<>>)
    ELSE DeserializeError_alignment_mismatch(align, address)

\* The address of an empty Vec<u8>, which owns no allocation: the dangling
\* pointer of alignment 1.
DANGLING_U8 == 1

\* The limit the asserts of alloc_aligned_buffer assume for the padding.
MAX_ALIGN_PADDING == 7

\* alloc_aligned_buffer::<T>(size), for align = align_of::<T>(), where the
\* allocator places vec![0; size] at address and, when buf.extend has to
\* grow the allocation, leaves the bytes at moved.  The result carries the
\* address of buf next to (buf, padding).
alloc_aligned_buffer(align, size, address, moved) ==
    IF address % align = 0
    THEN [tag |-> "Ok", val |-> <<Blank(size, 0), 0>>, address |-> address]
    ELSE LET padding == ((address - (address % 8)) + 8) - address
             extended == Blank(size, 0) \o Blank(padding, 0)
         IN  IF padding > MAX_ALIGN_PADDING
             THEN Panic("padding is bigger than 7")
             ELSE IF size + padding # Len(extended)
             THEN Panic("assertion failed: size + padding == buf.len()")
             ELSE IF (moved + padding) % align # 0
             THEN Panic("expected end of initial padding to be aligned")
             ELSE [tag |-> "Ok", val |-> <<extended, padding>>,
                   address |-> moved]

MaxAddr == 16

MaxAllocSize == 4

Addresses == 1..MaxAddr

\* Where vec![0; size] may be: nowhere for no bytes, and anywhere otherwise
\* (the allocator is asked for alignment 1).
FirstAddresses(size) == IF size = 0 THEN {DANGLING_U8} ELSE Addresses

\* align_of::<T>() of the types the function is for.
Aligns == {1, 2, 4, 8}

AlignCalls ==
    {[fn |-> "alloc_aligned_buffer", align |-> a, size |-> n] :
        a \in Aligns, n \in 0..MaxAllocSize}
    \cup
    {[fn |-> "check_alignment", align |-> a, address |-> p,
      slice |-> Blank(n, 0)] :
        a \in Aligns, p \in Addresses, n \in 0..MaxAllocSize}

CallAllocAlignedBuffer ==
    /\ pc = "call"
    /\ inp.fn = "alloc_aligned_buffer"
    /\ \E address \in FirstAddresses(inp.size), moved \in Addresses :
           LET r == alloc_aligned_buffer(inp.align, inp.size, address, moved)
           IN  /\ rret' = <<r>>
               /\ buf' = IF r.tag = "Ok" THEN r.val[1] ELSE buf
    /\ pc' = "alloc_aligned_buffer"
    /\ UNCHANGED <<native, usize_bits, inp, wret, wcur, rcur>>

CallCheckAlignment ==
    /\ pc = "call"
    /\ inp.fn = "check_alignment"
    /\ ReaderReturns("check_alignment",
                     check_alignment(inp.align, inp.address))

\* check_alignment::<T>(&buf[padding..]) on what alloc_aligned_buffer::<T>
\* returned.
CallCheckAlignmentAllocated ==
    /\ pc = "alloc_aligned_buffer"
    /\ rret[1].tag = "Ok"
    /\ rret' = rret \o <<check_alignment(inp.align,
                                         rret[1].address + rret[1].val[2])>>
    /\ pc' = "check_alignment"
    /\ UNCHANGED <<native, usize_bits, inp, buf, wret, wcur, rcur>>

NextAlign ==
    \/ CallAllocAlignedBuffer
    \/ CallCheckAlignment
    \/ CallCheckAlignmentAllocated

SpecAlign == InitCall(AlignCalls, {"LE"}) /\ [][NextAlign]_vars

\* C17: for every size and every address the allocator may hand out, also
\* when the buffer moves as it is extended, alloc_aligned_buffer::<T>(size)
\* returns (buf, padding) with padding <= 7, buf[padding..] of length size,
\* every byte of buf zero, and buf[padding..] at a multiple of align_of T,
\* which check_alignment::<T> accepts; check_alignment succeeds exactly for
\* addresses that are multiples of align_of T.
C17_AllocAligned ==
    /\ (inp.fn = "alloc_aligned_buffer" /\ pc # "call") =>
           /\ rret[1].tag = "Ok"
           /\ LET padding == rret[1].val[2]
              IN  /\ rret[1].val[1] = buf
                  /\ padding <= 7
                  /\ Len(SliceFrom(buf, padding)) = inp.size
                  /\ \A i \in 1..Len(buf) : buf[i] = 0
                  /\ (rret[1].address + padding) % inp.align = 0
           /\ pc = "check_alignment" => rret[2] = Ok(<<>>)
    /\ (inp.fn = "check_alignment" /\ pc # "call") =>
           (rret[1].tag = "Ok" <=> inp.address % inp.align = 0)

----------------------------------------------------------------------------
(* Claims about initial padding *)

\* C18: skip_initial_padding(slice) returns the number k of leading NUL
\* bytes capped at 7 and at the slice's length: k <= min(7, slice.len()),
\* every byte of slice[..k] is 0, and k = 7, or k = slice.len(), or
\* slice[k] # 0; the slice is not modified.
C18_SkipInitialPadding ==
    pc = "skip_initial_padding" =>
        /\ rret[1].tag = "Ok"
        /\ LET k == rret[1].val
           IN  /\ k <= Min(7, Len(inp.slice))
               /\ \A i \in 1..k : inp.slice[i] = 0
               /\ \/ k = 7
                  \/ k = Len(inp.slice)
                  \/ inp.slice[k + 1] # 0
        /\ buf = inp.slice

\* Seven of more than seven leading NULs have been skipped.
C18_Witness ==
    /\ pc = "skip_initial_padding"
    /\ Len(inp.slice) > 8
    /\ inp.slice[8] = 0
    /\ inp.slice[9] = 0
    /\ rret[1] = Ok(7)

----------------------------------------------------------------------------
(* Calls of the identifier writers and readers *)

\* n.to_ne_bytes()
to_ne_bytes(n) == IF native = "LE" THEN to_le_bytes(n) ELSE to_be_bytes(n)

\* 32-bit values: those of UInputs and the values around the identifiers'
\* limit, 2^31 - 2 and 2^31 - 1.
IdInputs ==
    UInputs(32)
        \cup {[i \in 1..32 |-> IF i = 1 \/ i = 32 THEN 0 ELSE 1],
              LowOnes(31, 32)}

\* The values the identifier types' conversion accepts.
ValidIds == {v \in IdInputs : ID_from_ne_bytes(to_ne_bytes(v)).tag = "Ok"}

\* Untrusted bytes, and the bytes of a 32-bit value in either order, alone
\* or with more bytes behind them.
IdSlices ==
    RawSlices
        \cup {bytes \o tail :
                bytes \in {to_le_bytes(v) : v \in IdInputs}
                            \cup {to_be_bytes(v) : v \in IdInputs},
                tail \in {<<>>, <<255>>, <<1, 2, 3, 4>>}}

IdCalls ==
    {[fn |-> f, E |-> E, id |-> v, what |-> wh, dst |-> Blank(len, fill)] :
        f \in {"write_pattern_id", "write_state_id"}, E \in Endians,
        v \in ValidIds, wh \in Whats, len \in {0, 3, 4, 5, MaxDst},
        fill \in FillBytes}
    \cup
    {[fn |-> f, slice |-> sl, what |-> wh] :
        f \in {"try_read_pattern_id", "try_read_state_id"},
        sl \in IdSlices, wh \in Whats}

CallWritePatternId ==
    /\ pc = "call"
    /\ inp.fn = "write_pattern_id"
    /\ WriterReturns(write_pattern_id(inp.E, inp.id, buf))

CallWriteStateId ==
    /\ pc = "call"
    /\ inp.fn = "write_state_id"
    /\ WriterReturns(write_state_id(inp.E, inp.id, buf))

NextIds ==
    \/ CallWritePatternId
    \/ CallWriteStateId
    \/ CallTryReadPatternId
    \/ CallTryReadStateId

SpecIds == InitCall(IdCalls, Endians) /\ [][NextIds]_vars

----------------------------------------------------------------------------
(* Claims about identifiers *)

\* The error that wraps the validator's failure err for the reader at pc.
IdError(err, what) ==
    IF pc = "try_read_pattern_id"
    THEN DeserializeError_pattern_id_error(err, what)
    ELSE DeserializeError_state_id_error(err, what)

\* C19: try_read_pattern_id and try_read_state_id return a buffer-too-small
\* error tagged `what` when the slice is shorter than SIZE (4 bytes);
\* otherwise they read the first SIZE bytes in native order and return
\* Ok((id, SIZE)) when the identifier type's validator accepts the value, or
\* an identifier error wrapping the validator's failure and `what` when it
\* rejects; every valid identifier written with write_pattern_id::<NE> /
\* write_state_id::<NE> is read back as the same identifier, SIZE bytes
\* consumed.
C19_IdentifierReads ==
    pc \in {"try_read_pattern_id", "try_read_state_id"} =>
        /\ IF Len(buf) < 4
           THEN rret[1] = DeserializeError_buffer_too_small(inp.what)
           ELSE LET bytes == SliceTo(buf, 4)
                    checked == ID_from_ne_bytes(bytes)
                IN  IF checked.tag = "Ok"
                    THEN rret[1] = Ok(<<NativeValue(bytes), 4>>)
                    ELSE /\ rret[1] = IdError(checked, inp.what)
                         /\ checked.attempted = NativeValue(bytes)
        /\ (inp.fn \in {"write_pattern_id", "write_state_id"}
                /\ inp.E = NE) =>
               /\ wret[1] = Ok(4)
               /\ rret[1] = Ok(<<inp.id, 4>>)

\* The largest identifier has been written in native order and read back.
C19_Witness ==
    /\ inp.fn = "write_state_id"
    /\ pc = "try_read_state_id"
    /\ inp.E = NE
    /\ inp.id = [i \in 1..32 |-> IF i = 1 \/ i = 32 THEN 0 ELSE 1]
    /\ rret[1] = Ok(<<inp.id, 4>>)

----------------------------------------------------------------------------
(* Claims about reading labels *)

\* The label a call of read_label expects.
ExpectedOfCall ==
    IF inp.fn = "write_label" THEN inp.label ELSE inp.expected

\* The index of the first NUL of a slice that has one.
FirstNul(slice) ==
    CHOOSE k \in 0..(Len(slice) - 1) :
        /\ slice[k + 1] = 0
        /\ \A j \in 1..k : slice[j] # 0

\* k rounded up to a multiple of 4.
RoundedToFour(k) == 4 * ((k + 3) \div 4)

----------------------------------------------------------------------------
(* Claims about the bytes read_varu64 looks at *)

\* What may follow an encoding in a slice.
FollowingBytes == VarintTails \cup {<<128, 128>>, <<127, 255, 0>>}

\* C21: read_varu64 looks at no more than the first 10 bytes of the slice
\* and stops at the first byte whose high bit is clear: it returns a
\* malformed-varint error whenever none of the first min(slice.len(), 10)
\* bytes has its high bit clear, and when it returns Ok((v, n)) then
\* 1 <= n <= 10 and the result does not depend on any byte at index n or
\* later; read_varu64_as_usize returns the same result, or an
\* integer-too-large error when v exceeds usize::MAX.
C21_VarintScan ==
    /\ pc = "read_varu64" =>
           /\ Terminators(buf) = {} =>
                  rret[1] = DeserializeError_invalid_varint(inp.what)
           /\ rret[1].tag = "Ok" =>
                  LET n == rret[1].val[2]
                  IN  /\ 1 <= n /\ n <= 10
                      /\ n <= Len(buf)
                      /\ buf[n] < 128
                      /\ \A i \in 1..(n - 1) : buf[i] >= 128
                      /\ \A tail \in FollowingBytes :
                             read_varu64(SliceTo(buf, n) \o tail, inp.what)
                                 = rret[1]
    /\ pc = "read_varu64_as_usize" =>
           LET r == read_varu64(buf, inp.what)
           IN  IF r.tag # "Ok" THEN rret[1] = r
               ELSE IF GePow2(r.val[1], usize_bits)
               THEN rret[1] = DeserializeError_invalid_usize(inp.what)
               ELSE rret[1] = Ok(<<Cast(r.val[1], usize_bits), r.val[2]>>)

\* read_varu64 has rejected ten continuation bytes followed by a byte whose
\* high bit is clear.
C21_Witness ==
    /\ pc = "read_varu64"
    /\ Len(buf) > 10
    /\ \A i \in 1..10 : buf[i] >= 128
    /\ buf[11] < 128
    /\ rret[1] = DeserializeError_invalid_varint(inp.what)

\* C22: whenever read_label(slice, L) returns Ok(n), every byte of slice
\* from index L.len() up to index n is NUL: a buffer with a byte other than
\* NUL in the label's padding is rejected.
C22_LabelPaddingIsNul ==
    (pc = "read_label" /\ rret[1].tag = "Ok") =>
        \A i \in Len(ExpectedOfCall)..(rret[1].val - 1) : buf[i + 1] = 0

----------------------------------------------------------------------------
(* Claims about what the writers leave alone *)

\* C23: when write_label, write_endianness_check, write_version or
\* write_varu64 returns a buffer-too-small error the destination is left
\* byte for byte unchanged, and when one returns Ok(n) every byte of dst at
\* index n or later is unchanged.
C23_WritersFrame ==
    pc # "call" =>
        /\ Len(buf) = Len(inp.dst)
        /\ (wret[1].tag = "Err" /\ wret[1].kind = "SerializeError") =>
               buf = inp.dst
        /\ wret[1].tag = "Ok" =>
               SliceFrom(buf, wret[1].val) = SliceFrom(inp.dst, wret[1].val)

====
